---- MODULE Spec2Model ----
(***************************************************************************)
(* Approval / publish workflow of mindful-poster.                          *)
(*                                                                         *)
(* The state is the posts table (src/src/database.py), the approve, reject *)
(* and preview request handlers of the FastAPI server (src/src/server.py), *)
(* each with the local variables it holds between two accesses of the      *)
(* shared resources, the Instagram Graph API as seen by publish_post       *)
(* (src/src/instagram.py): the containers it created, the polls and the    *)
(* commits it received, and the scheduled job (src/src/scheduler.py) that  *)
(* generates a post (src/src/generator.py) and emails its links            *)
(* (src/src/emailer.py).                                                   *)
(*                                                                         *)
(* Five specifications:                                                    *)
(*   Spec     the handlers are served by several workers over one          *)
(*            database (the module-level `app` under an ASGI server with   *)
(*            more than one worker, or several replicas on the Postgres    *)
(*            DATABASE_URL): their database statements and gateway calls   *)
(*            interleave, with each other and with the scheduled job;      *)
(*   SpecSeq  a request starts only after every earlier request returned   *)
(*            (one uvicorn event loop: the handlers are `async def` and    *)
(*            never await), and not during a scheduled run;                *)
(*   SpecJob  the scheduled and the manual runs of the generation pipeline *)
(*            alone, with the previews of what they stored;                *)
(*   SpecTheme  pick_theme alone, over the themes and the posts it reads;  *)
(*   SpecWorkers  the workers of Spec taking one request after another on  *)
(*            a stored post, without the generation pipeline.              *)
(***************************************************************************)
EXTENDS Integers, FiniteSets, Sequences, TLC

\* ---- bounds of the model ------------------------------------------------
MaxPosts == 2
MaxReqs == 2
MaxTokens == 3
MaxThemes == 3
\* a worker takes no further request once the clock shows this time
MaxClock == 6

\* ---- program constants --------------------------------------------------
max_attempts == 10

PostIds == 1..MaxPosts
Reqs == 1..MaxReqs
Tokens == 1..MaxTokens

\* PostStatus (database.py 21-27)
DRAFT == "draft"
PENDING_APPROVAL == "pending_approval"
APPROVED == "approved"
REJECTED == "rejected"
PUBLISHED == "published"
FAILED == "failed"
PostStatus == {DRAFT, PENDING_APPROVAL, APPROVED, REJECTED, PUBLISHED, FAILED}

\* NULL of a nullable column: timestamps and ids are positive when set
None == 0
NoReason == "None"
RejectedViaEmail == "Rejected via email"

VARIABLES
    db,         \* posts table: post id -> row
    clock,      \* datetime.now(timezone.utc): every reading is later than the last
    settings,   \* get_settings(): are the Instagram credentials configured
    req,        \* request handlers: locals and position of each
    containers, \* gateway: media containers created, with what they received
    media,      \* gateway: published media, the container each came from
    job,        \* scheduler: the run of daily_generate_and_email, and how the last ended
    outbox,     \* notifier: the tokens of the approval emails sent
    picker      \* pick_theme: the configured themes, the posts it looks at, its locals

vars == <<db, clock, settings, req, containers, media, job, outbox, picker>>

\* ---- posts table (database.py) -----------------------------------------

NoPost == [id |-> None, status |-> "none"]
NoRow == [id |-> None, status |-> "none", instagram_post_id |-> None]

\* get_post_by_token without the filter on the token: the first row stored
get_post_by_token_AnyRow(d, token) ==
    IF Len(d) = 0 THEN NoPost ELSE [id |-> 1, status |-> d[1].status]

\* get_post_by_token: the row whose approval_token is the token, or None
get_post_by_token(d, token) ==
    IF \E i \in DOMAIN d : d[i].approval_token = token
    THEN LET i == CHOOSE i \in DOMAIN d : d[i].approval_token = token
         IN  [id |-> i, status |-> d[i].status]
    ELSE NoPost

\* create_post leaving the status to the default of the column (database.py 70)
NewPost_ColumnDefault(token, now) ==
    [ status |-> DRAFT,
      approval_token |-> token,
      created_at |-> now,
      approved_at |-> None,
      published_at |-> None,
      instagram_post_id |-> None,
      rejection_reason |-> NoReason,
      metadata |-> "usage" ]

\* the row create_post inserts
NewPost(token, now) ==
    [ status |-> PENDING_APPROVAL,
      approval_token |-> token,
      created_at |-> now,
      approved_at |-> None,
      published_at |-> None,
      instagram_post_id |-> None,
      rejection_reason |-> NoReason,
      metadata |-> "usage" ]

\* database.py 208-216: only the metadata column is written
update_post_metadata(d, post_id, metadata) ==
    IF post_id \notin DOMAIN d THEN d
    ELSE [d EXCEPT ![post_id] = [@ EXCEPT !.metadata = metadata]]

\* update_post_status stamping created_at at every write
update_post_status_Restamps(d, post_id, status, rejection_reason, instagram_post_id, now) ==
    IF post_id \notin DOMAIN d THEN d
    ELSE [d EXCEPT ![post_id] = [@ EXCEPT !.status = status, !.created_at = now]]

\* update_post_status storing the publish time but not the Instagram post id
update_post_status_NoExternalId(d, post_id, status, rejection_reason, instagram_post_id, now) ==
    IF post_id \notin DOMAIN d THEN d
    ELSE LET row == [d[post_id] EXCEPT !.status = status] IN
         [d EXCEPT ![post_id] =
            IF status = APPROVED THEN [row EXCEPT !.approved_at = now]
            ELSE IF status = PUBLISHED THEN [row EXCEPT !.published_at = now]
            ELSE IF status = REJECTED
                 THEN [row EXCEPT !.rejection_reason = rejection_reason]
            ELSE row]

\* update_post_status setting approved_at on every write, not on APPROVED alone
update_post_status_StampsAlways(d, post_id, status, rejection_reason, instagram_post_id, now) ==
    IF post_id \notin DOMAIN d THEN d
    ELSE LET row == [d[post_id] EXCEPT !.status = status, !.approved_at = now] IN
         [d EXCEPT ![post_id] =
            IF status = PUBLISHED
            THEN [row EXCEPT !.published_at = now,
                             !.instagram_post_id = instagram_post_id]
            ELSE IF status = REJECTED
                 THEN [row EXCEPT !.rejection_reason = rejection_reason]
            ELSE row]

\* update_post_status: unconditional write of the status, and of the fields
\* that go with it; a missing row is left alone
update_post_status(d, post_id, status, rejection_reason, instagram_post_id, now) ==
    IF post_id \notin DOMAIN d THEN d
    ELSE LET row == [d[post_id] EXCEPT !.status = status] IN
         [d EXCEPT ![post_id] =
            IF status = APPROVED THEN [row EXCEPT !.approved_at = now]
            ELSE IF status = PUBLISHED
                 THEN [row EXCEPT !.published_at = now,
                                  !.instagram_post_id = instagram_post_id]
            ELSE IF status = REJECTED
                 THEN [row EXCEPT !.rejection_reason = rejection_reason]
            ELSE row]

\* ---- the handlers' decisions (server.py) -------------------------------

\* approve_post without the check of REJECTED (lines 48-53 left out)
ApproveDecision_NoRejectedCheck(post) ==
    IF post = NoPost THEN "404"
    ELSE IF post.status = PUBLISHED THEN "already_published"
    ELSE "approve"

\* approve_post, lines 38-56: what the handler does with the post it read
ApproveDecision(post) ==
    IF post = NoPost THEN "404"
    ELSE IF post.status = PUBLISHED THEN "already_published"
    ELSE IF post.status = REJECTED THEN "previously_rejected"
    ELSE "approve"

\* reject_post, lines 94-104
RejectDecision(post) ==
    IF post = NoPost THEN "404"
    ELSE IF post.status \in {PUBLISHED, APPROVED} THEN "cannot_reject"
    ELSE "reject"

\* ---- publish_post and _wait_for_container (instagram.py) ---------------

\* responses of the gateway
CreateResponses == {"id", "no_id", "http_error"}
PollResponses == {"FINISHED", "ERROR", "IN_PROGRESS", "OTHER", "NO_FIELD", "network_error"}
CommitResponses == {"id", "no_id", "http_error"}

\* publish_post without the check of the credentials (lines 35-41 left out)
PublishPrecheck_ImageOnly(cfg, image_url) ==
    IF image_url = None THEN "no_image"
    ELSE "ok"

\* publish_post, lines 35-47: the checks before any call of the gateway
PublishPrecheck(cfg, image_url) ==
    IF ~cfg.instagram_configured THEN "not_configured"
    ELSE IF image_url = None THEN "no_image"
    ELSE "ok"

\* the loop without its `elif status == "ERROR"` branch: ERROR is waited out
WaitStep_ErrorIgnored(status, attempt) ==
    IF status = "network_error" THEN "uncaught"
    ELSE IF status = "FINISHED" THEN "return"
    ELSE IF attempt + 1 < max_attempts THEN "sleep"
    ELSE "timed_out"

\* the loop running one turn too many: range(max_attempts + 1)
WaitStep_OneMore(status, attempt) ==
    IF status = "network_error" THEN "uncaught"
    ELSE IF status = "FINISHED" THEN "return"
    ELSE IF status = "ERROR" THEN "container_failed"
    ELSE IF attempt + 1 < max_attempts + 1 THEN "sleep"
    ELSE "timed_out"

\* the loop without the raise after it (line 120): a time-out returns
WaitStep_TimeoutReturns(status, attempt) ==
    IF status = "network_error" THEN "uncaught"
    ELSE IF status = "FINISHED" THEN "return"
    ELSE IF status = "ERROR" THEN "container_failed"
    ELSE IF attempt + 1 < max_attempts THEN "sleep"
    ELSE "return"

\* the loop taking a response without status_code for a finished container
WaitStep_NoFieldReady(status, attempt) ==
    IF status = "network_error" THEN "uncaught"
    ELSE IF status \in {"FINISHED", "NO_FIELD"} THEN "return"
    ELSE IF status = "ERROR" THEN "container_failed"
    ELSE IF attempt + 1 < max_attempts THEN "sleep"
    ELSE "timed_out"

\* one turn of the loop of _wait_for_container, after `attempt` earlier turns:
\* what the loop does with the status it got
WaitStep(status, attempt) ==
    IF status = "network_error" THEN "uncaught"
    ELSE IF status = "FINISHED" THEN "return"
    ELSE IF status = "ERROR" THEN "container_failed"
    ELSE IF attempt + 1 < max_attempts THEN "sleep"
    ELSE "timed_out"

\* ---- state after start-up ----------------------------------------------

IdleReq ==
    [ kind |-> "none", pc |-> "idle", token |-> None, post |-> NoPost,
      \* locals of publish_post and _wait_for_container
      container_id |-> None, attempt |-> 0, polls |-> 0, instagram_post_id |-> None,
      error |-> "none", outcome |-> "none",
      \* preview_post: whether the page shows the approve and reject links
      links |-> FALSE,
      \* history of the request, read by the properties only
      prior |-> {}, creates |-> 0, commits |-> 0,
      writes |-> 0, changed |-> FALSE, finish |-> NoRow ]

\* config.py 37-40: the secret of the deployment
secret_key == "s3cret"

IdleJob ==
    [ pc |-> "idle", token |-> None, post_id |-> None,
      \* what started the run, and the Authorization header of a manual one
      kind |-> "none", auth |-> "none",
      \* the shape of post_data, the text parsed, and the "approval_token"
      \* key it may hold
      draft |-> "none", token_key |-> None,
      \* the stage that raised (the `e` of the except clause)
      error |-> "None",
      \* history of the run, read by the properties only
      calls |-> 0, inserted |-> 0, tries |-> 0, sent |-> 0 ]

IdlePicker ==
    [ pc |-> "idle", config |-> {}, posts |-> <<>>,
      themes |-> {}, used_ids |-> {}, result |-> None, outcome |-> "none" ]

Init ==
    /\ db = <<>>
    /\ clock = 1
    /\ settings \in [instagram_configured : BOOLEAN, secret_key : {secret_key}]
    /\ req = [r \in Reqs |-> IdleReq]
    /\ containers = <<>>
    /\ media = <<>>
    /\ job = IdleJob
    /\ outbox = {}
    /\ picker = IdlePicker

\* tokens are opaque random strings, compared for equality only: they are
\* numbered in the order they are stored, and a token no post has yet is the
\* next number
Named(token) == token <= Len(db) + 1

\* requests are numbered in the order they arrive
Arrives(r) == req[r].pc = "idle" /\ \A r2 \in Reqs : r2 < r => req[r2].pc # "idle"

Returned == {r \in Reqs : req[r].pc = "done"}
Quiet == job.pc = "idle" /\ \A r \in Reqs : req[r].pc \in {"idle", "done"}

\* the row of the post a handler holds, as the response is sent
RowSeen(d, post) ==
    IF post.id \in DOMAIN d
    THEN [id |-> post.id, status |-> d[post.id].status,
          instagram_post_id |-> d[post.id].instagram_post_id]
    ELSE NoRow

\* the handler returns (or its exception leaves it) with this outcome; the
\* locals of the publish operation are gone
Return(q, outcome, d) ==
    [q EXCEPT !.pc = "done", !.outcome = outcome, !.finish = RowSeen(d, q.post),
              !.container_id = None, !.attempt = 0, !.polls = 0,
              !.instagram_post_id = None]

\* a call of update_post_status by a handler, at time now
Write(q, d, d2) ==
    [q EXCEPT !.writes = IF q.post.id \in DOMAIN d THEN @ + 1 ELSE @,
              !.changed = @ \/ d2 # d]

\* ---- daily_generate_and_email (scheduler.py 18-35) --------------------

\* generate_post storing the post before it parses the text returned
JobNext_CreateFirst(stage) ==
    IF stage = "pick_theme" THEN "draft"
    ELSE IF stage = "draft" THEN "create"
    ELSE IF stage = "create" THEN "parse"
    ELSE IF stage = "parse" THEN "email"
    ELSE "return"

\* the stages of a run, in the order generate_post and the job go through
\* them: pick_theme, the generation call, json.loads, create_post, then
\* send_approval_email
JobNext(stage) ==
    IF stage = "pick_theme" THEN "draft"
    ELSE IF stage = "draft" THEN "parse"
    ELSE IF stage = "parse" THEN "create"
    ELSE IF stage = "create" THEN "email"
    ELSE "return"

\* a try block that ends before send_approval_email
JobOnException_EmailEscapes(stage) == IF stage = "email" THEN "crashed" ELSE "except"

\* lines 31-35: `except Exception` around the whole run: whatever stage
\* raised, the job prints the failure and the traceback
JobOnException(stage) == "except"

\* the run goes on to the stage after `stage`; after the last one it prints
\* that the email is sent (lines 29-30)
JobGoesOn(j, stage) ==
    [j EXCEPT !.pc = IF JobNext(stage) = "return" THEN "sent" ELSE JobNext(stage)]

\* the stage raised: the except clause of the job takes it; trigger_generation
\* has no try block (server.py 270-271) and the exception leaves the handler
JobRaises(j, stage) ==
    [j EXCEPT !.pc = IF j.kind = "manual" THEN "uncaught" ELSE JobOnException(stage),
              !.error = stage]

\* the trigger fires (scheduler.py 49-55) and generate_post picks the theme
\* (generator.py 54-59)
JobPickTheme ==
    /\ job.pc = "idle"
    /\ Len(db) < MaxPosts
    /\ \E ok \in BOOLEAN :
         LET j == [job EXCEPT !.kind = "scheduled"]
         IN  job' = IF ok THEN JobGoesOn(j, "pick_theme") ELSE JobRaises(j, "pick_theme")
    /\ UNCHANGED <<db, clock, settings, req, containers, media, outbox, picker>>

\* the Authorization headers a client may send
Headers == {"", "s3cret", "Bearer s3cret", "bearer s3cret", "Bearer s3cret ", "Bearer guess"}

\* trigger_generation accepting the bare secret too
Authorized_BareSecret(auth, cfg) == auth \in {"Bearer " \o cfg.secret_key, cfg.secret_key}

\* trigger_generation comparing the scheme only
Authorized_AnyBearer(auth, cfg) == auth \in {"Bearer " \o cfg.secret_key, "Bearer guess"}

\* server.py 263-265: the header is the string "Bearer " + secret_key
Authorized(auth, cfg) == auth = "Bearer " \o cfg.secret_key

\* POST /generate (server.py 258-271): 401 for any other header, else the
\* pipeline of the scheduled run, run by the handler
GenerateRequest(auth) ==
    /\ job.pc = "idle"
    /\ Len(db) < MaxPosts \/ ~Authorized(auth, settings)
    /\ \E ok \in BOOLEAN :
         LET j == [job EXCEPT !.kind = "manual", !.auth = auth]
         IN  job' = IF ~Authorized(auth, settings) THEN [j EXCEPT !.pc = "refused"]
                    ELSE IF ok THEN JobGoesOn(j, "pick_theme")
                    ELSE JobRaises(j, "pick_theme")
    /\ UNCHANGED <<db, clock, settings, req, containers, media, outbox, picker>>

\* the job function returns, after the success message or after the except
\* clause, and the scheduler waits for the next trigger; the handler returns
\* its response (200, 401 or 500)
JobReturn ==
    /\ job.pc \in {"sent", "except", "uncaught", "refused"}
    /\ job' = IdleJob
    /\ UNCHANGED <<db, clock, settings, req, containers, media, outbox, picker>>

\* generator.py 88-93: the generation call
JobDraft ==
    /\ job.pc = "draft"
    /\ \E ok \in BOOLEAN :
         LET j == [job EXCEPT !.calls = @ + 1]
         IN  job' = IF ok THEN JobGoesOn(j, "draft") ELSE JobRaises(j, "draft")
    /\ UNCHANGED <<db, clock, settings, req, containers, media, outbox, picker>>

\* what json.loads may return: an object with hook, caption and hashtags, an
\* object without one of them, an object where one of them is null, a value
\* that is not an object, or a complete object with an "approval_token" key
\* besides
Drafts == {"complete", "field_absent", "field_null", "not_object", "token_key"}

\* a token that generate_post never draws
ForeignToken == MaxTokens + 1

\* the values of an "approval_token" key in the draft: the token of a stored
\* post or one of no post
TokenKeys == {t \in Tokens : \E i \in DOMAIN db : db[i].approval_token = t} \cup {ForeignToken}

\* generator.py 133-138: the dict returned is
\* {"post_id", "approval_token", "cost", **post_data}: the keys of the draft
\* come last and replace those before them
ReturnedToken(j) == IF j.draft = "token_key" THEN j.token_key ELSE j.token

\* generator.py 120-131: post_data.get(field, "") raises AttributeError on
\* a value that is not an object and gives "" for an absent field; a null
\* goes to a NOT NULL column (database.py 64-66) and the commit raises
CreateAccepts(draft) == draft \notin {"field_null", "not_object"}

\* generator.py 110-116: json.loads of the text returned
JobParse ==
    /\ job.pc = "parse"
    /\ \/ job' = JobRaises(job, "parse")
       \/ \E draft \in Drafts \ {"token_key"} :
            job' = JobGoesOn([job EXCEPT !.draft = draft], "parse")
       \/ \E t \in TokenKeys :
            job' = JobGoesOn([job EXCEPT !.draft = "token_key", !.token_key = t], "parse")
    /\ UNCHANGED <<db, clock, settings, req, containers, media, outbox, picker>>

\* ---- create_post (database.py 125-159) ---------------------------------

\* create_post on a token column that is not unique
CreatePost_NoUniqueCheck(token) ==
    /\ job.pc = "create"
    /\ Named(token)
    /\ IF ~CreateAccepts(job.draft)
       THEN /\ job' = JobRaises(job, "create")
            /\ UNCHANGED <<db, clock>>
       ELSE \E now \in {clock + 1} :
              /\ clock' = now
              /\ db' = Append(db, NewPost(token, now))
              /\ job' = JobGoesOn([job EXCEPT !.token = token,
                                              !.post_id = Len(db) + 1,
                                              !.inserted = @ + 1], "create")
    /\ UNCHANGED <<settings, req, containers, media, outbox, picker>>

\* generator.py 118-131: the token is drawn and the row inserted;
\* approval_token is a unique column, so the commit of a row whose token is
\* already stored raises and nothing is stored
CreatePost(token) ==
    /\ job.pc = "create"
    /\ Named(token)
    /\ IF ~CreateAccepts(job.draft) \/ \E i \in DOMAIN db : db[i].approval_token = token
       THEN /\ job' = JobRaises(job, "create")
            /\ UNCHANGED <<db, clock>>
       ELSE \E now \in {clock + 1} :
              /\ clock' = now
              /\ db' = Append(db, NewPost(token, now))
              /\ job' = JobGoesOn([job EXCEPT !.token = token,
                                              !.post_id = Len(db) + 1,
                                              !.inserted = @ + 1], "create")
    /\ UNCHANGED <<settings, req, containers, media, outbox, picker>>

\* send_approval_email failing after it took the post back out of the table
JobEmail_RollsBack ==
    /\ job.pc = "email"
    /\ \E ok \in BOOLEAN :
         LET j == [job EXCEPT !.tries = @ + 1] IN
         IF ok
         THEN /\ outbox' = outbox \cup {ReturnedToken(j)}
              /\ job' = JobGoesOn([j EXCEPT !.sent = @ + 1], "email")
              /\ UNCHANGED db
         ELSE /\ job' = JobRaises(j, "email")
              /\ db' = SubSeq(db, 1, Len(db) - 1)
              /\ UNCHANGED outbox
    /\ UNCHANGED <<clock, settings, req, containers, media, picker>>

\* scheduler.py 28 with emailer.py 13-61: the approval email with the links
\* of the token, sent once
JobEmail ==
    /\ job.pc = "email"
    /\ \E ok \in BOOLEAN :
         LET j == [job EXCEPT !.tries = @ + 1] IN
         IF ok
         THEN /\ outbox' = outbox \cup {ReturnedToken(j)}
              /\ job' = JobGoesOn([j EXCEPT !.sent = @ + 1], "email")
         ELSE /\ job' = JobRaises(j, "email")
              /\ UNCHANGED outbox
    /\ UNCHANGED <<db, clock, settings, req, containers, media, picker>>

\* ---- approve_post (server.py 34-85) ------------------------------------

\* lines 37-53: read the post, answer at once if it is unknown or closed
ApproveRead(r, token) ==
    /\ Arrives(r)
    /\ Named(token)
    /\ LET post == get_post_by_token(db, token)
           dec == ApproveDecision(post)
           q == [req[r] EXCEPT !.kind = "approve", !.token = token,
                               !.post = post, !.prior = Returned]
       IN  req' = [req EXCEPT ![r] =
                     IF dec = "approve" THEN [q EXCEPT !.pc = "mark_approved"]
                     ELSE Return(q, dec, db)]
    /\ UNCHANGED <<db, clock, settings, containers, media, job, outbox, picker>>

\* line 56: update_post_status(post["id"], APPROVED)
ApproveMark(r) ==
    /\ req[r].pc = "mark_approved"
    /\ \E now \in {clock + 1} :
         LET d2 == update_post_status(db, req[r].post.id, APPROVED, NoReason, None, now)
         IN  /\ clock' = now
             /\ db' = d2
             /\ req' = [req EXCEPT ![r] = [Write(req[r], db, d2) EXCEPT !.pc = "publish"]]
    /\ UNCHANGED <<settings, containers, media, job, outbox, picker>>

\* lines 60-68 with publish_post 35-75: the checks, then the create call
placeholder_image == 1

NewContainer(post_id) ==
    [post |-> post_id, error |-> FALSE, finished |-> FALSE, commits |-> 0]

\* publish_post calling the create endpoint again after an answer without id
PublishCreate_Retry(r) ==
    /\ req[r].pc = "publish"
    /\ LET pre == PublishPrecheck(settings, placeholder_image) IN
       IF pre # "ok"
       THEN /\ req' = [req EXCEPT ![r] = [@ EXCEPT !.error = pre, !.pc = "mark_failed"]]
            /\ UNCHANGED containers
       ELSE \E resp \in CreateResponses :
              LET q == [req[r] EXCEPT !.creates = @ + 1] IN
              IF resp = "id"
              THEN /\ containers' = Append(containers, NewContainer(q.post.id))
                   /\ req' = [req EXCEPT ![r] =
                                [q EXCEPT !.container_id = Len(containers) + 1,
                                          !.attempt = 0, !.pc = "wait"]]
              ELSE IF resp = "no_id"
              THEN /\ req' = [req EXCEPT ![r] = q]
                   /\ UNCHANGED containers
              ELSE /\ req' = [req EXCEPT ![r] =
                                Return([q EXCEPT !.error = "create_http_error"], "500", db)]
                   /\ UNCHANGED containers
    /\ UNCHANGED <<db, clock, settings, media, job, outbox, picker>>

PublishCreate(r) ==
    /\ req[r].pc = "publish"
    /\ LET pre == PublishPrecheck(settings, placeholder_image) IN
       IF pre # "ok"
       THEN /\ req' = [req EXCEPT ![r] = [@ EXCEPT !.error = pre, !.pc = "mark_failed"]]
            /\ UNCHANGED containers
       ELSE \E resp \in CreateResponses :
              LET q == [req[r] EXCEPT !.creates = @ + 1] IN
              IF resp = "id"
              THEN /\ containers' = Append(containers, NewContainer(q.post.id))
                   /\ req' = [req EXCEPT ![r] =
                                [q EXCEPT !.container_id = Len(containers) + 1,
                                          !.attempt = 0, !.pc = "wait"]]
              ELSE IF resp = "no_id"
              THEN /\ req' = [req EXCEPT ![r] =
                                [q EXCEPT !.error = "create_no_id", !.pc = "mark_failed"]]
                   /\ UNCHANGED containers
              ELSE /\ req' = [req EXCEPT ![r] =
                                Return([q EXCEPT !.error = "create_http_error"], "500", db)]
                   /\ UNCHANGED containers
    /\ UNCHANGED <<db, clock, settings, media, job, outbox, picker>>

\* _wait_for_container (instagram.py 98-120): one status query and what the
\* loop does with the answer
PublishPoll(r) ==
    /\ req[r].pc = "wait"
    /\ \E status \in PollResponses :
         LET c == req[r].container_id
             step == WaitStep(status, req[r].attempt)
             q == [req[r] EXCEPT !.polls = @ + 1]
         IN  /\ containers' = [containers EXCEPT
                                 ![c].error = @ \/ status = "ERROR",
                                 ![c].finished = @ \/ status = "FINISHED"]
             /\ req' = [req EXCEPT ![r] =
                  IF step = "return" THEN [q EXCEPT !.pc = "commit"]
                  ELSE IF step = "sleep" THEN [q EXCEPT !.attempt = @ + 1]
                  ELSE IF step = "uncaught"
                       THEN Return([q EXCEPT !.error = "network_error"], "500", db)
                  ELSE [q EXCEPT !.attempt = IF step = "timed_out" THEN @ + 1 ELSE @,
                                 !.error = step, !.pc = "mark_failed"]]
    /\ UNCHANGED <<db, clock, settings, media, job, outbox, picker>>

\* publish_post 77-95: the publish call on the container
PublishCommit(r) ==
    /\ req[r].pc = "commit"
    /\ \E resp \in CommitResponses :
         LET c == req[r].container_id
             q == [req[r] EXCEPT !.commits = @ + 1]
         IN  /\ containers' = [containers EXCEPT ![c].commits = @ + 1]
             /\ IF resp = "id"
                THEN /\ media' = Append(media, c)
                     /\ req' = [req EXCEPT ![r] =
                                  [q EXCEPT !.instagram_post_id = Len(media) + 1,
                                            !.pc = "mark_published"]]
                ELSE IF resp = "no_id"
                THEN /\ req' = [req EXCEPT ![r] =
                                  [q EXCEPT !.error = "publish_no_id", !.pc = "mark_failed"]]
                     /\ UNCHANGED media
                ELSE /\ req' = [req EXCEPT ![r] =
                                  Return([q EXCEPT !.error = "publish_http_error"], "500", db)]
                     /\ UNCHANGED media
    /\ UNCHANGED <<db, clock, settings, job, outbox, picker>>

\* line 69: update_post_status(post["id"], PUBLISHED, instagram_post_id)
ApprovePublished(r) ==
    /\ req[r].pc = "mark_published"
    /\ \E now \in {clock + 1} :
         LET d2 == update_post_status(db, req[r].post.id, PUBLISHED, NoReason,
                                      req[r].instagram_post_id, now)
         IN  /\ clock' = now
             /\ db' = d2
             /\ req' = [req EXCEPT ![r] = Return(Write(req[r], db, d2), "published", d2)]
    /\ UNCHANGED <<settings, containers, media, job, outbox, picker>>

\* lines 79-80: except InstagramPublishError: update_post_status(post["id"], FAILED)
ApproveFailed(r) ==
    /\ req[r].pc = "mark_failed"
    /\ \E now \in {clock + 1} :
         LET d2 == update_post_status(db, req[r].post.id, FAILED, NoReason, None, now)
         IN  /\ clock' = now
             /\ db' = d2
             /\ req' = [req EXCEPT ![r] = Return(Write(req[r], db, d2), "failed", d2)]
    /\ UNCHANGED <<settings, containers, media, job, outbox, picker>>

\* ---- reject_post (server.py 90-110) ------------------------------------

\* lines 93-102: read the post, refuse if it is unknown, approved or published
RejectRead(r, token) ==
    /\ Arrives(r)
    /\ Named(token)
    /\ LET post == get_post_by_token(db, token)
           dec == RejectDecision(post)
           q == [req[r] EXCEPT !.kind = "reject", !.token = token,
                               !.post = post, !.prior = Returned]
       IN  req' = [req EXCEPT ![r] =
                     IF dec = "reject" THEN [q EXCEPT !.pc = "mark_rejected"]
                     ELSE Return(q, dec, db)]
    /\ UNCHANGED <<db, clock, settings, containers, media, job, outbox, picker>>

\* line 104: update_post_status(post["id"], REJECTED, rejection_reason=...)
RejectWrite(r) ==
    /\ req[r].pc = "mark_rejected"
    /\ \E now \in {clock + 1} :
         LET d2 == update_post_status(db, req[r].post.id, REJECTED, RejectedViaEmail,
                                      None, now)
         IN  /\ clock' = now
             /\ db' = d2
             /\ req' = [req EXCEPT ![r] = Return(Write(req[r], db, d2), "rejected", d2)]
    /\ UNCHANGED <<settings, containers, media, job, outbox, picker>>

\* ---- specifications -----------------------------------------------------

\* ---- preview_post (server.py 115-195) ----------------------------------

\* the links rendered on every page
PreviewLinks_Always(post) == TRUE

\* the links rendered until the post is published
PreviewLinks_UntilPublished(post) == post.status # PUBLISHED

\* lines 186-191: the action links are rendered while the post awaits approval
PreviewLinks(post) == post.status = PENDING_APPROVAL

\* lines 117-120: no post for the token is a 404
PreviewDecision(post) == IF post = NoPost THEN "404" ELSE "preview"

PreviewRead(r, token) ==
    /\ Arrives(r)
    /\ Named(token)
    /\ LET post == get_post_by_token(db, token)
           dec == PreviewDecision(post)
           q == [req[r] EXCEPT !.kind = "preview", !.token = token,
                               !.post = post, !.prior = Returned,
                               !.links = dec = "preview" /\ PreviewLinks(post)]
       IN  req' = [req EXCEPT ![r] = Return(q, dec, db)]
    /\ UNCHANGED <<db, clock, settings, containers, media, job, outbox, picker>>

Step(r) ==
    \/ ApproveMark(r)
    \/ PublishCreate(r)
    \/ PublishPoll(r)
    \/ PublishCommit(r)
    \/ ApprovePublished(r)
    \/ ApproveFailed(r)
    \/ RejectWrite(r)

\* the stages of a run after the trigger fired, up to the email
JobStep ==
    \/ JobDraft
    \/ JobParse
    \/ \E t \in Tokens : CreatePost(t)

\* a draft without an "approval_token" key: the email has the token of the post
JobParseOwnToken == JobParse /\ job'.token_key = None

JobStepOwnToken ==
    \/ JobDraft
    \/ JobParseOwnToken
    \/ \E t \in Tokens : CreatePost(t)

\* requests served by several workers: a request may arrive at any time, also
\* during a scheduled run (the manual runs and the drafts with a token key
\* are those of SpecJob)
Next ==
    \/ JobPickTheme
    \/ JobStepOwnToken
    \/ JobEmail
    \/ JobReturn
    \/ \E r \in Reqs, t \in Tokens : ApproveRead(r, t)
    \/ \E r \in Reqs, t \in Tokens : RejectRead(r, t)
    \/ \E r \in Reqs, t \in Tokens : PreviewRead(r, t)
    \/ \E r \in Reqs : Step(r)

Spec == Init /\ [][Next]_vars

\* one thing at a time: the server is one process serving a request at a
\* time (server.py 318-321), the scheduler is another running one job at a
\* time (scheduler.py 41-55), and here a request arrives, and a run starts,
\* when no request and no run is in flight. The owner follows the links of
\* the emails received, so the runs of this specification are those whose
\* email is delivered with the token of the post; the runs whose email fails
\* or carries a token of the draft are those of SpecJob and Spec
ApproveReadSeq(r, token) == Quiet /\ ApproveRead(r, token)
RejectReadSeq(r, token) == Quiet /\ RejectRead(r, token)
PreviewReadSeq(r, token) == Quiet /\ PreviewRead(r, token)

JobPickThemeSeq == Quiet /\ JobPickTheme

JobEmailDelivered == JobEmail /\ job'.pc = "sent"

NextSeq ==
    \/ JobPickThemeSeq
    \/ JobStepOwnToken
    \/ JobEmailDelivered
    \/ JobReturn
    \/ \E r \in Reqs, t \in Tokens : ApproveReadSeq(r, t)
    \/ \E r \in Reqs, t \in Tokens : RejectReadSeq(r, t)
    \/ \E r \in Reqs, t \in Tokens : PreviewReadSeq(r, t)
    \/ \E r \in Reqs : Step(r)

SpecSeq == Init /\ [][NextSeq]_vars

\* the scheduled and the manual runs alone, every stage of a run failing or
\* not, on every shape of draft, and the previews that show what the tokens
\* resolve to
NextJob ==
    \/ JobPickTheme
    \/ \E auth \in Headers : GenerateRequest(auth)
    \/ JobStep
    \/ JobEmail
    \/ JobReturn
    \/ \E r \in Reqs, t \in Tokens : PreviewRead(r, t)

SpecJob == Init /\ [][NextJob]_vars

\* ---- properties ---------------------------------------------------------

\* ---- pick_theme (generator.py 26-36) -----------------------------------

ThemeIds == 1..MaxThemes

\* generator.py 29: get_used_theme_ids(days=14)
exclusion_days == 14

\* the day pick_theme runs, and the creation days around the cutoff: the day
\* before it, the cutoff itself and the day after (created_at is an ISO
\* string in UTC, database.py 151, 233: such strings compare as their instants)
Today == exclusion_days + 1
Days == (Today - exclusion_days - 1)..(Today - exclusion_days + 1)

\* get_used_theme_ids without the filter on created_at
get_used_theme_ids_NoWindow(posts, now, days) ==
    {posts[i].theme_id : i \in DOMAIN posts}

\* database.py 230-239: the distinct theme_id of the posts created at or
\* after the cutoff
get_used_theme_ids(posts, now, days) ==
    LET cutoff == now - days
    IN  {posts[i].theme_id : i \in {k \in DOMAIN posts : posts[k].created_at >= cutoff}}

\* pick_theme without the fallback of lines 32-34
Available_NoFallback(themes, used_ids) == themes \ used_ids

\* pick_theme choosing among all the themes
Available_All(themes, used_ids) == themes

\* generator.py 31-34: the themes not used, or all of them when none is left
Available(themes, used_ids) ==
    LET available == {t \in themes : t \notin used_ids}
    IN  IF available = {} THEN themes ELSE available

\* the posts pick_theme may find: their themes (configured or not any more)
\* and their creation days
PostLogs ==
    UNION {[1..n -> [theme_id : ThemeIds, created_at : Days]] : n \in 0..MaxPosts}

InitTheme ==
    /\ db = <<>>
    /\ clock = 1
    /\ settings = [instagram_configured |-> TRUE, secret_key |-> secret_key]
    /\ req = [r \in Reqs |-> IdleReq]
    /\ containers = <<>>
    /\ media = <<>>
    /\ job = IdleJob
    /\ outbox = {}
    /\ \E config \in SUBSET ThemeIds, posts \in PostLogs :
         picker = [IdlePicker EXCEPT !.config = config, !.posts = posts]

\* line 28: load_themes
PickLoad ==
    /\ picker.pc = "idle"
    /\ picker' = [picker EXCEPT !.themes = picker.config, !.pc = "used"]
    /\ UNCHANGED <<db, clock, settings, req, containers, media, job, outbox>>

\* line 29
PickUsed ==
    /\ picker.pc = "used"
    /\ picker' = [picker EXCEPT
                    !.used_ids = get_used_theme_ids(picker.posts, Today, exclusion_days),
                    !.pc = "choose"]
    /\ UNCHANGED <<db, clock, settings, req, containers, media, job, outbox>>

\* lines 31-36: random.choice raises IndexError on an empty list
PickChoose ==
    /\ picker.pc = "choose"
    /\ LET available == Available(picker.themes, picker.used_ids)
       IN  IF available = {}
           THEN picker' = [picker EXCEPT !.outcome = "IndexError", !.pc = "done"]
           ELSE \E t \in available :
                  picker' = [picker EXCEPT !.result = t, !.outcome = "returned",
                                           !.pc = "done"]
    /\ UNCHANGED <<db, clock, settings, req, containers, media, job, outbox>>

NextTheme ==
    \/ PickLoad
    \/ PickUsed
    \/ PickChoose

SpecTheme == InitTheme /\ [][NextTheme]_vars


Approves == {r \in Reqs : req[r].kind = "approve"}
Rejects == {r \in Reqs : req[r].kind = "reject"}
Closed == {PUBLISHED, REJECTED}
NoGatewayCall(q) == q.creates = 0 /\ q.polls = 0 /\ q.commits = 0

\* r2 is the first request to arrive after r1 returned
Follows(r1, r2) == r1 \in req[r2].prior /\ req[r2].prior \ req[r1].prior = {r1}

\* neither of the two requests returned before the other arrived
Overlap(r1, r2) ==
    /\ r1 # r2
    /\ req[r1].pc # "idle" /\ req[r2].pc # "idle"
    /\ r1 \notin req[r2].prior /\ r2 \notin req[r1].prior

\* C1: two approve requests of one token, the second arriving after the first
\* returned, leave the post with the same status and external id after the
\* second as after the first, and issue at most one create call between them.
C1_ApproveTwiceSameResult ==
    \A r1, r2 \in Approves :
        ( /\ req[r1].pc = "done" /\ req[r2].pc = "done"
          /\ req[r1].post.id # None /\ req[r2].token = req[r1].token
          /\ Follows(r1, r2) )
        => /\ req[r2].finish = req[r1].finish
           /\ req[r1].creates + req[r2].creates <= 1
           /\ req[r1].commits + req[r2].commits <= 1

\* C2: of two approve requests of one post that overlap in time, at most one
\* issues the create call and at most one the commit call.
C2_ConcurrentApprovePublishOnce ==
    \A r1, r2 \in Approves :
        (Overlap(r1, r2) /\ req[r1].post.id # None /\ req[r1].post.id = req[r2].post.id)
        => /\ req[r1].creates + req[r2].creates <= 1
           /\ req[r1].commits + req[r2].commits <= 1

\* C3: once a post is stored PUBLISHED or REJECTED, no step changes its status,
\* approved_at, published_at, instagram_post_id or rejection_reason.
C3_ClosedNeverChanges ==
    [][\A p \in DOMAIN db :
          db[p].status \in Closed
          => /\ db'[p].status = db[p].status
             /\ db'[p].approved_at = db[p].approved_at
             /\ db'[p].published_at = db[p].published_at
             /\ db'[p].instagram_post_id = db[p].instagram_post_id
             /\ db'[p].rejection_reason = db[p].rejection_reason]_vars

\* C4: an approve request that read the post as PUBLISHED or REJECTED has
\* returned the matching no-op answer with no write of the post and no call
\* of the gateway.
C4_ApproveClosedIsNoOp ==
    \A r \in Approves :
        req[r].post.status \in Closed
        => /\ req[r].pc = "done"
           /\ req[r].outcome =
                (IF req[r].post.status = PUBLISHED THEN "already_published"
                 ELSE "previously_rejected")
           /\ req[r].writes = 0 /\ ~req[r].changed
           /\ NoGatewayCall(req[r])
           /\ req[r].finish.status = req[r].post.status

C4_Witness ==
    \E r \in Approves :
        /\ req[r].pc = "done" /\ req[r].post.status = PUBLISHED
        /\ \E r1 \in req[r].prior : req[r1].outcome = "published"

\* C5: a reject request that read the post as REJECTED, APPROVED, PUBLISHED or
\* FAILED changes no field of the post.
C5_RejectAfterActionChangesNothing ==
    \A r \in Rejects :
        req[r].post.status \in {REJECTED, APPROVED, PUBLISHED, FAILED}
        => ~req[r].changed

\* C6: an approve request writes the post or calls the gateway only if it read
\* the post as PENDING_APPROVAL; on any other status (FAILED among them) it
\* has returned without a write and without a gateway call.
C6_ApproveOnlyFromPending ==
    \A r \in Approves :
        (req[r].post.id # None /\ req[r].post.status # PENDING_APPROVAL)
        => /\ req[r].pc = "done"
           /\ req[r].writes = 0 /\ ~req[r].changed
           /\ NoGatewayCall(req[r])

\* C7: every change of a stored status follows an edge of the state graph, and
\* a new post is stored as PENDING_APPROVAL.
Edges ==
    { <<PENDING_APPROVAL, APPROVED>>, <<PENDING_APPROVAL, REJECTED>>,
      <<APPROVED, PUBLISHED>>, <<APPROVED, FAILED>> }

C7_StatusFollowsGraph ==
    [][ /\ \A p \in DOMAIN db :
             db'[p].status # db[p].status => <<db[p].status, db'[p].status>> \in Edges
        /\ \A p \in DOMAIN db' \ DOMAIN db : db'[p].status = PENDING_APPROVAL ]_vars

\* C8: an approve request whose publish operation failed, at whatever stage,
\* has returned a page (no uncaught exception) and left the post FAILED.
C8_PublishFailureEndsFailed ==
    \A r \in Approves :
        (req[r].pc = "done" /\ req[r].error # "none")
        => /\ req[r].outcome = "failed"
           /\ req[r].finish.status = FAILED

\* C9: a container for which a poll answered ERROR never receives a commit,
\* and the publish operation that polled it has raised the container failure.
C9_ErrorNeverCommitted ==
    /\ \A c \in DOMAIN containers : containers[c].error => containers[c].commits = 0
    /\ \A r \in Approves :
         (req[r].container_id # None /\ containers[req[r].container_id].error)
         => /\ req[r].pc = "mark_failed"
            /\ req[r].error = "container_failed"
            /\ req[r].commits = 0

C9_Witness ==
    \E r \in Approves :
        /\ req[r].pc = "mark_failed" /\ req[r].error = "container_failed"
        /\ req[r].polls >= 3
        /\ containers[req[r].container_id].error

\* C10: the poll loop issues at most max_attempts status queries; when none of
\* them answers FINISHED or ERROR it issues exactly max_attempts and raises
\* the time-out, which is not the failure raised on ERROR, and no commit is
\* issued.
C10_PollBounded ==
    \A r \in Approves :
        LET q == req[r] IN
        /\ q.polls <= max_attempts
        /\ q.pc = "wait" => q.polls = q.attempt /\ q.attempt < max_attempts
        /\ (q.container_id # None /\ q.polls = max_attempts
              /\ ~containers[q.container_id].error
              /\ ~containers[q.container_id].finished)
           => q.pc = "mark_failed" /\ q.error = "timed_out"
        /\ (q.pc = "mark_failed" /\ q.error = "timed_out")
           => /\ q.polls = max_attempts
              /\ ~containers[q.container_id].error
              /\ ~containers[q.container_id].finished
              /\ containers[q.container_id].commits = 0
        /\ q.error = "timed_out"
           => q.commits = 0 /\ q.pc \in {"mark_failed", "done"}
                /\ (q.pc = "done" => q.outcome = "failed")

C10_Witness ==
    \E r \in Approves :
        /\ req[r].pc = "mark_failed" /\ req[r].error = "timed_out"
        /\ req[r].polls = max_attempts

\* C11: the gateway calls of a publish operation are ordered create, polls,
\* commit: a commit is issued only on the container the create call returned,
\* after a poll of it answered FINISHED, and at most once.
C11_CreatePollCommitOrder ==
    /\ \A c \in DOMAIN containers :
         /\ containers[c].commits <= 1
         /\ containers[c].commits = 1 => containers[c].finished
    /\ \A i \in DOMAIN media :
         /\ media[i] \in DOMAIN containers
         /\ containers[media[i]].commits = 1
         /\ \A j \in DOMAIN media : media[j] = media[i] => j = i
    /\ \A r \in Approves :
         LET q == req[r] IN
         /\ q.commits <= 1
         /\ q.commits = 1 => q.creates = 1
         /\ q.pc = "wait" => q.creates = 1 /\ q.commits = 0
                              /\ q.container_id \in DOMAIN containers
                              /\ containers[q.container_id].commits = 0
         /\ q.pc = "commit" => /\ q.creates = 1 /\ q.commits = 0 /\ q.polls >= 1
                               /\ q.container_id \in DOMAIN containers
                               /\ containers[q.container_id].finished
                               /\ containers[q.container_id].commits = 0
         /\ q.pc = "mark_published" => /\ q.commits = 1 /\ q.polls >= 1
                                       /\ containers[q.container_id].commits = 1
                                       /\ q.instagram_post_id \in DOMAIN media
                                       /\ media[q.instagram_post_id] = q.container_id

C11_Witness ==
    \E r \in Approves :
        /\ req[r].pc = "mark_published" /\ req[r].polls >= 2
        /\ containers[req[r].container_id].commits = 1

\* C12: a publish operation issues the create call at most once; when that
\* call fails or answers without id the operation is over: no container, no
\* poll and no commit, and the create call is not repeated.
CreateFailures == {"create_no_id", "create_http_error"}

C12_CreateOnceNoRetry ==
    /\ \A r \in Approves :
         LET q == req[r] IN
         /\ q.creates <= 1
         /\ q.error \in CreateFailures
            => /\ q.creates = 1 /\ q.polls = 0 /\ q.commits = 0
               /\ q.container_id = None
               /\ q.pc \in {"mark_failed", "done"}
               /\ q.pc = "done" => q.outcome = (IF q.error = "create_no_id"
                                                THEN "failed" ELSE "500")
    /\ Len(containers)
         = Cardinality({r \in Approves : req[r].creates = 1
                                          /\ req[r].error \notin CreateFailures})

C12_Witness ==
    \E r \in Approves :
        /\ req[r].pc = "mark_failed" /\ req[r].error = "create_no_id"
        /\ req[r].creates = 1

\* C13: an approve request on a PENDING_APPROVAL post whose create call
\* returns a container, whose k-th poll is the first to answer FINISHED and
\* whose commit returns an id has issued one create, k polls and one commit,
\* and ends with the post PUBLISHED, instagram_post_id the id the commit
\* returned, approved_at and published_at set.
C13_ApprovePublishes ==
    /\ \A r \in Approves :
         LET q == req[r] IN
         q.post.status = PENDING_APPROVAL
         => /\ q.pc = "mark_published"
               => /\ q.creates = 1 /\ q.commits = 1
                  /\ q.polls = q.attempt + 1 /\ q.polls <= max_attempts
                  /\ containers[q.container_id].post = q.post.id
            /\ (q.pc = "done" /\ q.outcome = "published")
               => /\ q.creates = 1 /\ q.commits = 1 /\ q.writes = 2
                  /\ q.finish.status = PUBLISHED
                  /\ db[q.post.id].status = PUBLISHED
                  /\ db[q.post.id].instagram_post_id = q.finish.instagram_post_id
                  /\ db[q.post.id].approved_at # None
                  /\ db[q.post.id].published_at > db[q.post.id].approved_at
    \* every id a commit returned is held by the request about to store it, or
    \* is stored in the post the container was created for
    /\ \A i \in DOMAIN media :
         LET p == containers[media[i]].post IN
         \/ \E r \in Approves : req[r].pc = "mark_published"
                                 /\ req[r].instagram_post_id = i
         \/ db[p].status = PUBLISHED /\ db[p].instagram_post_id = i

C13_Witness ==
    \E r \in Approves :
        /\ req[r].post.status = PENDING_APPROVAL
        /\ req[r].pc = "done" /\ req[r].outcome = "published"
        /\ db[req[r].post.id].status = PUBLISHED
        /\ db[req[r].post.id].instagram_post_id \in DOMAIN media

\* C14: a reject request on a PENDING_APPROVAL post calls the gateway never,
\* and ends with the post REJECTED, the rejection reason stored, approved_at,
\* published_at and instagram_post_id unset.
C14_RejectPending ==
    \A r \in Rejects :
        LET q == req[r] IN
        q.post.status = PENDING_APPROVAL
        => /\ NoGatewayCall(q) /\ q.container_id = None
           /\ q.pc \in {"mark_rejected", "done"}
           /\ q.pc = "done"
              => /\ q.outcome = "rejected" /\ q.writes = 1
                 /\ q.finish.status = REJECTED
                 /\ db[q.post.id].status = REJECTED
                 /\ db[q.post.id].rejection_reason = RejectedViaEmail
                 /\ db[q.post.id].approved_at = None
                 /\ db[q.post.id].published_at = None
                 /\ db[q.post.id].instagram_post_id = None

C14_Witness ==
    \E r \in Rejects :
        /\ req[r].post.status = PENDING_APPROVAL /\ req[r].pc = "done"
        /\ db[req[r].post.id].status = REJECTED
        /\ db[req[r].post.id].rejection_reason = RejectedViaEmail

\* C15: in every reachable state no two distinct stored posts have the same
\* approval token, so a token resolves to at most one post, whatever the
\* sequence of creations (a creation that draws a stored token stores nothing)
C15_TokensUnique ==
    /\ \A i, j \in DOMAIN db : db[i].approval_token = db[j].approval_token => i = j
    /\ \A t \in Tokens : Cardinality({i \in DOMAIN db : db[i].approval_token = t}) <= 1
    /\ (job.pc = "except" /\ job.error = "create") => job.inserted = 0

C15_Witness ==
    /\ Len(db) = 2
    /\ db[1].approval_token # db[2].approval_token
    /\ \E r \in Reqs : /\ req[r].pc = "done" /\ req[r].kind = "preview"
                       /\ req[r].token = db[2].approval_token
                       /\ req[r].post.id = 2

\* C16: an approve, reject or preview request whose token belongs to no
\* stored post ends with 404, writes nothing, changes no field of any post and
\* makes no call to the gateway
C16_UnknownTokenNotFound ==
    \A r \in Reqs :
        (req[r].pc # "idle" /\ \A i \in DOMAIN db : db[i].approval_token # req[r].token)
        => /\ req[r].pc = "done"
           /\ req[r].outcome = "404"
           /\ req[r].post = NoPost
           /\ req[r].writes = 0 /\ ~req[r].changed
           /\ NoGatewayCall(req[r])
           /\ ~req[r].links

C16_Witness ==
    /\ Len(db) >= 1
    /\ \E r1, r2 \in Reqs :
         /\ req[r1].kind = "approve" /\ req[r1].outcome = "404"
         /\ req[r2].kind = "preview" /\ req[r2].outcome = "404"
         /\ \A i \in DOMAIN db : db[i].approval_token \notin {req[r1].token, req[r2].token}
         /\ db[1].status = PENDING_APPROVAL

\* C17: approved_at of a post is unset until an APPROVED transition is
\* applied to it and never decreases afterwards; published_at is set only if
\* approved_at is set, and is not earlier than approved_at
C17_TimestampsMonotonic ==
    [][ /\ \A i \in DOMAIN db' \ DOMAIN db : db'[i].approved_at = None
        /\ \A i \in DOMAIN db :
             /\ db'[i].approved_at # db[i].approved_at
                => db'[i].status = APPROVED /\ db'[i].approved_at > db[i].approved_at
             /\ db'[i].published_at # None
                => /\ db'[i].approved_at # None
                   /\ db'[i].published_at >= db'[i].approved_at ]_vars

\* C18: in every reachable state, whatever the interleaving of approve and
\* reject requests, a post has an instagram_post_id only if its status is
\* PUBLISHED and a rejection reason only if its status is REJECTED
C18_OutcomeFieldsMatchStatus ==
    \A i \in DOMAIN db :
        /\ db[i].instagram_post_id # None => db[i].status = PUBLISHED
        /\ db[i].rejection_reason # NoReason => db[i].status = REJECTED

Stages == {"pick_theme", "draft", "parse", "create", "email"}

\* C19: a scheduled run in which a stage fails (topic selection, draft
\* generation, post creation or notification) ends in the except clause and
\* returns: the failure never leaves the job, and the job is then idle as it
\* was at the start, so that the next run goes through the whole pipeline
C19_JobCatchesEveryFailure ==
    /\ job.kind = "scheduled"
       => /\ job.pc \in {"draft", "parse", "create", "email", "sent", "except"}
          /\ job.pc = "except" <=> job.error \in Stages
    /\ job.pc = "idle" => job = IdleJob

\* a run failed at the email (its post has no email), and the next run went
\* through the whole pipeline
C19_Witness ==
    /\ Len(db) = 2
    /\ db[1].approval_token \notin outbox
    /\ db[2].approval_token \in outbox
    /\ job.pc = "sent" /\ job.post_id = 2

\* C20: if the draft generation fails in a run (the generation call fails or
\* its output cannot be parsed), the run ends with no post inserted and no
\* notification sent
C20_GenerationFailureStoresNothing ==
    (job.pc = "except" /\ job.error \in {"pick_theme", "draft", "parse"})
    => /\ job.inserted = 0
       /\ job.sent = 0
       /\ job.token = None /\ job.post_id = None

C20_Witness ==
    /\ job.pc = "except" /\ job.error = "parse"
    /\ Len(db) = 1
    /\ outbox = {db[1].approval_token}

\* C21: if the email fails after the post was created, the post is not rolled
\* back: it stays stored in PENDING_APPROVAL, its token still resolves to it,
\* and the email is not sent again in that run
C21_EmailFailureKeepsPost ==
    (job.pc = "except" /\ job.error = "email")
    => /\ job.inserted = 1
       /\ job.post_id \in DOMAIN db
       /\ db[job.post_id].approval_token = job.token
       /\ db[job.post_id].status = PENDING_APPROVAL
       /\ get_post_by_token(db, job.token) = [id |-> job.post_id, status |-> PENDING_APPROVAL]
       /\ job.tries = 1 /\ job.sent = 0
       /\ job.token \notin outbox

\* the email of the second post failed and a preview of its token shows it
C21_Witness ==
    /\ job.pc = "except" /\ job.error = "email" /\ job.post_id = 2
    /\ \E r \in Reqs : /\ req[r].kind = "preview" /\ req[r].outcome = "preview"
                       /\ req[r].token = job.token /\ req[r].links

\* the themes of the posts created inside the window, read off the posts
UsedInWindow ==
    {t \in ThemeIds : \E i \in DOMAIN picker.posts :
        /\ picker.posts[i].theme_id = t
        /\ Today - picker.posts[i].created_at <= exclusion_days}

\* C22: pick_theme over the configured themes T and the themes U used inside
\* the 14-day window: a theme of T \ U when there is one, some theme of T when
\* all of T is in U, and always a theme when T is not empty
C22_PickThemeAvoidsUsed ==
    picker.pc = "done"
    => LET T == picker.config
           U == UsedInWindow
       IN  /\ T \ U # {} => picker.outcome = "returned" /\ picker.result \in T \ U
           /\ (T # {} /\ T \subseteq U) => picker.outcome = "returned" /\ picker.result \in T
           /\ T # {} => picker.outcome = "returned" /\ picker.result \in T

\* one theme used inside the window, one used before it, one never used
C22_Witness ==
    /\ picker.pc = "done"
    /\ picker.config = {1, 2, 3}
    /\ picker.posts = <<[theme_id |-> 1, created_at |-> Today - exclusion_days],
                        [theme_id |-> 2, created_at |-> Today - exclusion_days - 1]>>
    /\ picker.result = 2

\* every theme used inside the window: the choice falls back on all of them
C22_WitnessAllUsed ==
    /\ picker.pc = "done"
    /\ picker.config = {1, 2}
    /\ UsedInWindow = {1, 2}
    /\ picker.result = 1

\* C23: a post is stored in PENDING_APPROVAL at the moment it is created, with
\* approved_at, published_at, instagram_post_id and rejection_reason unset,
\* and no stored post has status DRAFT in any reachable state
C23_CreatedPendingNeverDraft ==
    /\ \A i \in DOMAIN db : db[i].status \in PostStatus \ {DRAFT}
    /\ job.pc = "email"
       => /\ job.post_id = Len(db)
          /\ db[job.post_id].status = PENDING_APPROVAL
          /\ db[job.post_id].approved_at = None
          /\ db[job.post_id].published_at = None
          /\ db[job.post_id].instagram_post_id = None
          /\ db[job.post_id].rejection_reason = NoReason

\* a second post just created, the first one already published
C23_Witness ==
    /\ job.pc = "email" /\ job.post_id = 2
    /\ db[1].status = PUBLISHED

\* C24: creating a post from a draft in which a required field (hook, caption
\* or hashtags) is absent fails before anything is persisted: no post is
\* inserted and no token becomes resolvable
C24_MissingFieldStoresNothing ==
    job.draft = "field_absent"
    => /\ job.inserted = 0
       /\ job.token = None /\ job.post_id = None
       /\ job.pc \in {"create", "except", "uncaught"}

\* C25: approval_token and created_at of a post are set at its creation and
\* never change: no step of an approve, reject or preview request, no write of
\* a publish result and no update of the metadata modifies them
C25_TokenAndCreationTimeFixed ==
    [][\A i \in DOMAIN db :
         /\ db'[i].approval_token = db[i].approval_token
         /\ db'[i].created_at = db[i].created_at
         /\ update_post_metadata(db, i, "revised")[i].approval_token = db[i].approval_token
         /\ update_post_metadata(db, i, "revised")[i].created_at = db[i].created_at]_vars

\* one post approved and published, the other rejected, both with the token
\* and the creation time they were stored with
C25_Witness ==
    /\ Len(db) = 2
    /\ db[1].status = PUBLISHED /\ db[2].status = REJECTED
    /\ db[1].approval_token = 1 /\ db[2].approval_token = 2
    /\ db[1].created_at < db[1].approved_at
    /\ db[2].created_at < db[1].approved_at
    /\ update_post_metadata(db, 1, "revised")[1].metadata = "revised"

Previews == {r \in Reqs : req[r].kind = "preview"}

\* C26: a preview request is read-only (it changes no field of any post and
\* makes no gateway call) and its page has the approve and reject links if and
\* only if the status of the post is PENDING_APPROVAL
C26_PreviewReadOnlyLinksIffPending ==
    \A r \in Previews :
        /\ req[r].pc = "done"
        /\ req[r].writes = 0 /\ ~req[r].changed
        /\ NoGatewayCall(req[r])
        /\ req[r].outcome \in {"404", "preview"}
        /\ req[r].outcome = "preview"
           => /\ req[r].finish.status = req[r].post.status
              /\ req[r].links <=> req[r].post.status = PENDING_APPROVAL
        /\ req[r].outcome = "404" => ~req[r].links

\* the preview of a post whose publication failed: a page without the links
C26_Witness ==
    \E r \in Previews :
        /\ req[r].outcome = "preview"
        /\ req[r].post.status = FAILED
        /\ ~req[r].links

\* the preview of a post awaiting approval: a page with the links
C26_WitnessPending ==
    \E r \in Previews :
        /\ req[r].outcome = "preview"
        /\ req[r].post.status = PENDING_APPROVAL
        /\ req[r].links

\* C27: a manual generate request whose Authorization header is not exactly
\* "Bearer " followed by the configured secret is refused (401) before any
\* work: no generation call, no draft, no post created, no email sent
C27_UnauthorizedGenerateRefused ==
    (job.kind = "manual" /\ job.auth # "Bearer " \o settings.secret_key)
    => /\ job.pc = "refused"
       /\ job.calls = 0 /\ job.draft = "none"
       /\ job.inserted = 0 /\ job.token = None /\ job.post_id = None
       /\ job.tries = 0 /\ job.sent = 0

\* a request with the scheme in lower case, refused with a post in the table
C27_Witness ==
    /\ job.pc = "refused" /\ job.auth = "bearer s3cret"
    /\ Len(db) = 1 /\ outbox = {db[1].approval_token}

\* a request with the exact header went through to the email
C27_WitnessAuthorized ==
    /\ job.kind = "manual" /\ job.auth = "Bearer s3cret"
    /\ job.pc = "sent" /\ job.inserted = 1 /\ job.sent = 1

\* ---- workers serving one request after another ---------------------------

\* the store after one scheduled run stored a post and its email was sent
InitWorkers ==
    /\ db = <<NewPost(1, 2)>>
    /\ clock = 2
    /\ settings \in [instagram_configured : BOOLEAN, secret_key : {secret_key}]
    /\ req = [r \in Reqs |-> IdleReq]
    /\ containers = <<>>
    /\ media = <<>>
    /\ job = IdleJob
    /\ outbox = {1}
    /\ picker = IdlePicker

\* server.py 318-321: a worker that sent its response takes the next request
\* with fresh locals
NextRequest(r) ==
    /\ req[r].pc = "done"
    /\ clock < MaxClock
    /\ req' = [req EXCEPT ![r] = IdleReq]
    /\ UNCHANGED <<db, clock, settings, containers, media, job, outbox, picker>>

\* a step of a handler, the gateway answering the first status query with a
\* final status or an error (no IN_PROGRESS: the loop is of no interest here)
StepSettled(r) == Step(r) /\ (req[r].pc = "wait" => req'[r].pc # "wait")

NextWorkers ==
    \/ \E r \in Reqs, t \in Tokens : ApproveRead(r, t)
    \/ \E r \in Reqs, t \in Tokens : RejectRead(r, t)
    \/ \E r \in Reqs : StepSettled(r)
    \/ \E r \in Reqs : NextRequest(r)

SpecWorkers == InitWorkers /\ [][NextWorkers]_vars

\* the pcs of approve_post between its write of APPROVED (line 56) and its
\* write of the publish result (lines 70, 80)
Publishing == {"publish", "wait", "commit", "mark_published", "mark_failed"}

\* C28: an approve request writes APPROVED (with the approval time) before
\* its first gateway call, so a reject request that reads the post after that
\* write and before the approve request records the publish result is refused
\* and leaves the post unchanged
C28_RejectRefusedWhilePublishing ==
    [][\A a \in Approves :
         /\ req'[a].creates > req[a].creates
            => /\ req[a].writes = 1
               /\ req[a].pc \in Publishing
         /\ req[a].pc \in Publishing
            => \A r \in Reqs \ {a} :
                 (/\ req[r].pc = "idle"
                  /\ req'[r].kind = "reject"
                  /\ req'[r].token = req[a].token)
                 => /\ req'[r].pc = "done"
                    /\ req'[r].outcome = "cannot_reject"
                    /\ db' = db]_vars

\* the stored posts a token resolves to
Resolves(t) == {i \in DOMAIN db : db[i].approval_token = t}

\* C29: in the scheduled run and in the manual generate path an email with
\* token T is sent only after a post with token T was stored as
\* PENDING_APPROVAL: every token emailed resolves to exactly one stored post,
\* and the run that sent an email sent the token of the post it stored (the
\* three links of an email are built from the one token, emailer.py 28-31)
C29_EmailedTokenResolves ==
    /\ \A t \in outbox : Cardinality(Resolves(t)) = 1
    /\ job.sent = 1
       => /\ job.inserted = 1
          /\ job.post_id \in DOMAIN db
          /\ db[job.post_id].status = PENDING_APPROVAL
          /\ db[job.post_id].approval_token \in outbox

\* the errors publish_post raises from its checks (instagram.py 35-47)
PrecheckErrors == {"not_configured", "no_image"}

\* no request arrived after r returned: the stored post is as r left it
Latest(r) == \A r2 \in Reqs : req[r2].pc # "idle" => r \notin req[r2].prior

\* C30: publish_post without credentials or without an image raises its
\* failure before any gateway call (no create, poll or commit); the approve
\* request that called it ends with the post FAILED, approved_at set,
\* published_at and instagram_post_id unset
C30_PrecheckFailsBeforeGateway ==
    /\ \A cfg \in [instagram_configured : BOOLEAN, secret_key : {secret_key}],
          image_url \in {None, placeholder_image} :
         PublishPrecheck(cfg, image_url) \in PrecheckErrors
         <=> (~cfg.instagram_configured \/ image_url = None)
    /\ \A r \in Approves :
         /\ ~settings.instagram_configured
            => /\ NoGatewayCall(req[r])
               /\ req[r].pc \notin {"wait", "commit", "mark_published"}
               /\ (req[r].pc = "done" /\ req[r].writes > 0)
                  => req[r].error = "not_configured"
         /\ req[r].error \in PrecheckErrors
            => /\ NoGatewayCall(req[r])
               /\ req[r].pc \in {"mark_failed", "done"}
               /\ req[r].pc = "done"
                  => /\ req[r].outcome = "failed"
                     /\ req[r].writes = 2
                     /\ req[r].finish.status = FAILED
                     /\ req[r].finish.instagram_post_id = None
                     /\ Latest(r)
                        => /\ db[req[r].post.id].status = FAILED
                           /\ db[req[r].post.id].approved_at # None
                           /\ db[req[r].post.id].published_at = None
                           /\ db[req[r].post.id].instagram_post_id = None

\* an approve request on a deployment without credentials returned its
\* failure page
C30_Witness ==
    \E r \in Approves :
        /\ ~settings.instagram_configured
        /\ req[r].pc = "done" /\ req[r].error = "not_configured"
        /\ req[r].outcome = "failed" /\ Latest(r)
        /\ db[req[r].post.id].status = FAILED
        /\ db[req[r].post.id].approved_at = clock - 1

\* the status responses that are neither FINISHED nor ERROR: IN_PROGRESS, some
\* other value, no status_code field
NotReady == {"IN_PROGRESS", "OTHER", "NO_FIELD"}

\* C31: in _wait_for_container a status response other than FINISHED and
\* ERROR (IN_PROGRESS, another value, no status field) is not-yet-ready: it
\* uses up exactly one of the max_attempts attempts and the loop goes on, or
\* times out on the last attempt; it never makes the loop return, so a commit
\* follows only a poll that answered FINISHED
C31_NotReadyConsumesOneAttempt ==
    [][ /\ \A status \in NotReady, attempt \in 0..(max_attempts - 1) :
             WaitStep(status, attempt) =
                 (IF attempt + 1 < max_attempts THEN "sleep" ELSE "timed_out")
        /\ \A r \in Approves :
             LET c == req[r].container_id IN
             (req[r].pc = "wait" /\ req'[r].polls = req[r].polls + 1)
             => /\ req'[r].pc = "commit"
                   => ~containers[c].finished /\ containers'[c].finished
                /\ (/\ containers'[c] = containers[c]
                    /\ req'[r].error # "network_error")
                   => /\ req'[r].attempt = req[r].attempt + 1
                      /\ req'[r].commits = req[r].commits
                      /\ IF req'[r].attempt < max_attempts
                         THEN req'[r].pc = "wait" /\ req'[r].error = "none"
                         ELSE /\ req'[r].pc = "mark_failed"
                              /\ req'[r].error = "timed_out" ]_vars

\* a publish operation whose first two polls were not ready and whose third
\* answered FINISHED is about to commit
C31_Witness ==
    \E r \in Approves :
        /\ req[r].pc = "commit" /\ req[r].polls = 3 /\ req[r].attempt = 2
        /\ req[r].commits = 0
        /\ containers[req[r].container_id].finished

====
